---- MODULE Spec2Model ----
(***************************************************************************)
(* Kernel dispatch layer of HOOMD-blue: the launch-parameter autotuner as  *)
(* it is used by PotentialPairDPDThermoGPU (hoomd/md) and the JIT union    *)
(* patch potential PatchEnergyJITUnionGPU (hpmc).                          *)
(*                                                                         *)
(* hoomd/Autotuner.h, GPUEvalFactory.h and PatchEnergyJITUnion.h are       *)
(* included by the sources but are not part of them; the operators that    *)
(* stand for them follow the design document (sections 4.1, 4.2, 4.4).     *)
(***************************************************************************)
EXTENDS Integers, Sequences, FiniteSets, TLC

\* ------------------------------------------------------------------ bounds
NRanks == 2          \* cooperating processes of a decomposed run
MaxSamples == 2      \* samples_per_candidate is drawn from 1..MaxSamples
MaxPeriod == 2       \* rescan_period is drawn from 1..MaxPeriod

Ranks == 1..NRanks

\* Candidate lists handed to the autotuner (encoded launch parameters).
CandLists == {<<10>>, <<10, 20>>, <<20, 10>>, <<10, 20, 30>>}
\* Durations a timed launch can record.
Durations == {3, 5, 9}
\* The decomposed runs use the two-candidate lists and two durations.
SyncCandLists == {<<10, 20>>, <<20, 10>>}
SyncDurations == {3, 5}

MaxCands == CHOOSE n \in {Len(c) : c \in CandLists} :
                \A c \in CandLists : Len(c) <= n
\* History counters stop just past the values the properties speak about.
PairCap == MaxSamples * MaxCands + 1
StepCap == MaxPeriod + 1

Min2(a, b) == IF a <= b THEN a ELSE b

RECURSIVE SumSeq(_)
SumSeq(s) == IF s = <<>> THEN 0 ELSE Head(s) + SumSeq(Tail(s))

\* --------------------------------------------------------------- Autotuner
\* construct(candidates, samples_per_candidate, rescan_period, name,
\* sync_across_ranks): a fresh tuner is Scanning at the first candidate, is
\* enabled, and does not synchronise across ranks until setSync is called.
Autotuner(parameters, nsamples, period) ==
    [parameters |-> parameters, nsamples |-> nsamples, period |-> period,
     enabled |-> TRUE, sync |-> FALSE,
     state |-> "Scanning", element |-> 1,
     samples |-> [i \in 1..Len(parameters) |-> <<>>],
     locked |-> 0, calls |-> 0,
     began |-> FALSE, waiting |-> FALSE, misuse |-> FALSE]

\* Faulty variant of the constructor's check: an empty list is accepted.
AutotunerError_none(parameters) == ""

\* construct(...) fails with ConfigurationError if candidates is empty; the
\* result is the error the constructor throws, "" when it throws none.
AutotunerError(parameters) ==
    IF parameters = <<>> THEN "ConfigurationError" ELSE ""

setSync(t, sync) == [t EXCEPT !.sync = sync]

\* Faulty variant of getParam: the last locked candidate also while Scanning.
getParam_lockedOnly(t) == t.locked

\* setPeriod(period), setEnabled(enabled): the rescan period and the enabled
\* flag are replaced; the accumulated history is not reset.
setPeriod(t, period) == [t EXCEPT !.period = period]

\* Faulty variant of setEnabled: disabling the tuner restarts its scan.
setEnabled_reset(t, enabled) ==
    IF enabled THEN [t EXCEPT !.enabled = TRUE]
    ELSE [t EXCEPT !.enabled = FALSE, !.state = "Scanning", !.element = 1,
                   !.samples = [i \in 1..Len(t.parameters) |-> <<>>]]

setEnabled(t, enabled) == [t EXCEPT !.enabled = enabled]

\* getParam(): the probed candidate while Scanning, the locked one otherwise.
getParam(t) ==
    IF t.state = "Scanning" THEN t.parameters[t.element] ELSE t.locked

\* mean(i) < mean(j), or equal means and the smaller encoded key; the means
\* are compared as fractions.
Better(t, i, j) ==
    LET si == SumSeq(t.samples[i]) * Len(t.samples[j])
        sj == SumSeq(t.samples[j]) * Len(t.samples[i])
    IN  \/ si < sj
        \/ si = sj /\ t.parameters[i] < t.parameters[j]

\* The index of the candidate that is better than every other one.
BestOf(t) ==
    CHOOSE i \in 1..Len(t.parameters) :
        \A j \in 1..Len(t.parameters) : j = i \/ Better(t, i, j)

\* The arg-min-mean candidate of this process's own samples.
computeOptimalParameter(t) == t.parameters[BestOf(t)]

\* Scanning -> Locked: remember the candidate and restart the step count.
lockOnto(t, p) ==
    [t EXCEPT !.state = "Locked", !.locked = p, !.calls = 0, !.element = 1,
              !.began = FALSE, !.waiting = FALSE]

\* Faulty variant of clearSamples: only the locked candidate's samples are cleared.
clearSamples_lockedOnly(t) ==
    [i \in 1..Len(t.parameters) |->
        IF t.parameters[i] = t.locked THEN <<>> ELSE t.samples[i]]

\* Locked -> Scanning: the samples of every candidate are cleared.
clearSamples(t) == [i \in 1..Len(t.parameters) |-> <<>>]

rescan(t) ==
    [t EXCEPT !.state = "Scanning", !.element = 1, !.calls = 0,
              !.samples = clearSamples(t), !.began = FALSE]

\* begin(): starts the timer of one launch. A begin() while the previous one
\* has not been ended is an unpaired call.
begin(t) ==
    [t EXCEPT !.began = TRUE, !.misuse = t.misuse \/ t.began]

\* end() with the recorded duration d. While Scanning the sample is stored and
\* the probe moves on after nsamples of them; after the last candidate the
\* tuner locks (through the collective when sync is set: the process then
\* waits inside end()). While Locked the steps are counted and the scan
\* restarts after period of them.
end(t, d) ==
    IF ~t.began THEN [t EXCEPT !.misuse = TRUE]
    ELSE IF ~t.enabled THEN [t EXCEPT !.began = FALSE]
    ELSE IF t.state = "Scanning" THEN
        LET t1 == [t EXCEPT !.samples[t.element] = Append(@, d)]
        IN  IF Len(t1.samples[t.element]) < t.nsamples
            THEN [t1 EXCEPT !.began = FALSE]
            ELSE IF t.element < Len(t.parameters)
            THEN [t1 EXCEPT !.element = t.element + 1, !.began = FALSE]
            ELSE IF t.sync
            THEN [t1 EXCEPT !.waiting = TRUE, !.began = FALSE]
            ELSE lockOnto(t1, computeOptimalParameter(t1))
    ELSE IF t.calls + 1 >= t.period THEN rescan(t)
    ELSE [t EXCEPT !.calls = t.calls + 1, !.began = FALSE]

\* The blocking collective of the Scanning -> Locked transition: the minimum,
\* over the participating processes, of their locally optimal candidates.
collectiveParam(ts, procs) ==
    LET opts == {computeOptimalParameter(ts[r]) : r \in procs}
    IN  CHOOSE p \in opts : \A q \in opts : p <= q

\* ------------------------------------------------- unsigned int arithmetic
\* unsigned int arithmetic, 32 bits wide, carried out on 16-bit halves. A
\* value whose top bit is set is written as the negative number with the same
\* 32 bits. MulU32 takes a first factor below 2^15 (launch bounds and group
\* sizes are).
TwoTo16 == 65536

Hi16(x) == (x \div TwoTo16) % TwoTo16

Lo16(x) == x % TwoTo16

U32(hi, lo) ==
    IF hi < TwoTo16 \div 2 THEN hi * TwoTo16 + lo
    ELSE (hi - TwoTo16) * TwoTo16 + lo

AddU32(x, y) ==
    LET lo == Lo16(x) + Lo16(y)
    IN  U32((Hi16(x) + Hi16(y) + lo \div TwoTo16) % TwoTo16, lo % TwoTo16)

MulU32(a, b) ==
    LET low == a * Lo16(b)
    IN  U32((a * Hi16(b) + low \div TwoTo16) % TwoTo16, low % TwoTo16)

\* ------------------------------------------------ PotentialPairDPDThermoGPU
\* Autotuner::getTppListPow2(warpSize): the powers of two up to the warp
\* size.
RECURSIVE TppListFrom(_, _)
TppListFrom(s, warpSize) ==
    IF s > warpSize THEN <<>> ELSE <<s>> \o TppListFrom(2 * s, warpSize)

getTppListPow2(warpSize) == TppListFrom(1, warpSize)

\* Faulty variant of the key: three decimal digits for threads_per_particle.
DPDKey_narrow(block_size, s) == AddU32(MulU32(block_size, 1000), s)

\* block_size * 10000 + s.
DPDKey(block_size, s) == AddU32(MulU32(block_size, 10000), s)

\* The constructor's enumeration: for block_size = warp_size, 2 warp_size,
\* ... up to 1024, one key for every threads-per-particle value.
RECURSIVE BlockSizeLoop(_, _)
BlockSizeLoop(block_size, warp_size) ==
    IF block_size > 1024 THEN <<>>
    ELSE [i \in 1..Len(getTppListPow2(warp_size)) |->
             DPDKey(block_size, getTppListPow2(warp_size)[i])]
         \o BlockSizeLoop(block_size + warp_size, warp_size)

valid_params_pair(warp_size) == BlockSizeLoop(warp_size, warp_size)

\* The constructor: m_param is 0, the tuner is built over valid_params and
\* synchronised across ranks exactly when the particle data is decomposed.
\* The constructor passes 5 samples and a period of 100000 steps; the checks
\* draw both from the bounded ranges above.
\* Faulty variant of the constructor: the sample count and the period swapped.
DPDThermoGPU_swapped(valid_params, nsamples, period, decomposition) ==
    [m_param |-> 0,
     m_tuner |-> setSync(Autotuner(valid_params, period, nsamples),
                         decomposition)]

\* Faulty variant of the constructor: setSync is never called.
DPDThermoGPU_noSync(valid_params, nsamples, period, decomposition) ==
    [m_param |-> 0, m_tuner |-> Autotuner(valid_params, nsamples, period)]

PotentialPairDPDThermoGPU(valid_params, nsamples, period, decomposition) ==
    [m_param |-> 0,
     m_tuner |-> setSync(Autotuner(valid_params, nsamples, period),
                         decomposition)]

\* setTuningParam(param): a non-zero value bypasses the tuner.
setTuningParam(obj, param) == [obj EXCEPT !.m_param = param]

\* What one operation on the potential did: the calls it made on the tuner,
\* the kernel launches and their launch parameters, and whether it threw.
NoCall ==
    [op |-> "none", mode |-> "full", threw |-> FALSE, nlist_compute |-> 0,
     begins |-> 0, getParams |-> 0, ends |-> 0, launches |-> 0,
     block_size |-> 0, threads_per_particle |-> 0]

\* CHECK_CUDA_ERROR(): throws when the device reports an error.
CHECK_CUDA_ERROR(deviceError) == deviceError

\* Faulty variant of computeForces: the storage mode is tested after begin().
computeForces_lateCheck(obj, mode, checking, deviceError, d) ==
    [obj |-> [obj EXCEPT !.m_tuner = IF obj.m_param = 0 THEN begin(@) ELSE @],
     call |-> [NoCall EXCEPT !.op = "computeForces", !.mode = mode,
                             !.threw = (mode = "half"), !.nlist_compute = 1,
                             !.begins = IF obj.m_param = 0 THEN 1 ELSE 0]]

\* Faulty variant of computeForces: the tuner is used whatever m_param is.
computeForces_tunedAnyway(obj, mode, checking, deviceError, d) ==
    LET t1 == begin(obj.m_tuner)
        param == getParam(t1)
    IN  IF mode = "half"
        THEN [obj |-> obj,
              call |-> [NoCall EXCEPT !.op = "computeForces", !.mode = mode,
                                      !.nlist_compute = 1, !.threw = TRUE]]
        ELSE [obj |-> [obj EXCEPT !.m_tuner = end(t1, d)],
              call |-> [NoCall EXCEPT
                          !.op = "computeForces", !.mode = mode,
                          !.nlist_compute = 1, !.begins = 1, !.getParams = 1,
                          !.ends = 1, !.launches = 1,
                          !.block_size = param \div 10000,
                          !.threads_per_particle = param % 10000]]

\* computeForces(timestep): obj is the potential, mode the neighbor list's
\* storage mode, checking the error-checking flag, deviceError whether the
\* device reports an error after the launch, d the duration the tuner's
\* timer records. The result is the potential afterwards and the record of
\* the call.
computeForces(obj, mode, checking, deviceError, d) ==
    LET third_law == mode = "half"
        tuned == obj.m_param = 0
        t1 == IF tuned THEN begin(obj.m_tuner) ELSE obj.m_tuner
        param == IF tuned THEN getParam(t1) ELSE obj.m_param
        block_size == param \div 10000
        threads_per_particle == param % 10000
        launched == [NoCall EXCEPT
                       !.op = "computeForces", !.mode = mode,
                       !.nlist_compute = 1,
                       !.begins = IF tuned THEN 1 ELSE 0,
                       !.getParams = IF tuned THEN 1 ELSE 0,
                       !.launches = 1,
                       !.block_size = block_size,
                       !.threads_per_particle = threads_per_particle]
    IN  IF third_law
        THEN [obj |-> obj,
              call |-> [NoCall EXCEPT !.op = "computeForces", !.mode = mode,
                                      !.nlist_compute = 1, !.threw = TRUE]]
        ELSE IF checking /\ CHECK_CUDA_ERROR(deviceError)
        THEN [obj |-> [obj EXCEPT !.m_tuner = t1],
              call |-> [launched EXCEPT !.threw = TRUE]]
        ELSE [obj |-> [obj EXCEPT !.m_tuner = IF tuned THEN end(t1, d) ELSE t1],
              call |-> [launched EXCEPT !.ends = IF tuned THEN 1 ELSE 0]]

\* --------------------------------------------------- PatchEnergyJITUnionGPU
\* Particle type ids, and the lists the composite-geometry setters are given.
\* Coordinates and diameters are whole numbers on one axis.
TypeIds == {0, 1}
\* getTypeByName of a name no type has: an id outside the type ids.
UnknownType == Cardinality(TypeIds)
TypeidLists == {<<1>>}
PositionLists == {<<0>>, <<1>>}
OrientationLists == {<<1>>}
DiameterLists == {<<1>>, <<2>>}
ChargeLists == {<<1>>}
\* An element of a list that cannot be converted to the field's C++ type.
Bad == 0 - 1
\* Addresses the managed allocator can return; 0 is the null pointer.
Addresses == {1, 2}
\* Launch bounds the compiled module reports, and the device's warp size.
LaunchBoundsLists == {<<>>, <<2>>}
WarpSizes == {2}
MaxInflight == 1     \* launches outstanding on the stream at one time

\* BoundingVolumeTree of PatchEnergyJITUnion::buildOBBTree (design document
\* 4.4): a leaf holds one constituent and its bound, the position widened by
\* the constituent's extent (in half-diameters: coordinates are doubled); an
\* internal node holds the union bound of its two halves. A constituent whose
\* diameter is not set has no extent.
LeafBound(pos, diam, i) ==
    LET d == IF i <= Len(diam) THEN diam[i] ELSE 0
    IN  [lo |-> 2 * pos[i] - d, hi |-> 2 * pos[i] + d]

\* Faulty variant of UnionBound: the bound of the left half alone.
UnionBound_left(a, b) == a

UnionBound(a, b) == [lo |-> Min2(a.lo, b.lo), hi |-> IF a.hi >= b.hi THEN a.hi ELSE b.hi]

RECURSIVE BuildNode(_, _, _, _)
BuildNode(pos, diam, first, lastIdx) ==
    IF first = lastIdx
    THEN [leaf |-> TRUE, index |-> first, bound |-> LeafBound(pos, diam, first)]
    ELSE LET mid == (first + lastIdx) \div 2
             l == BuildNode(pos, diam, first, mid)
             r == BuildNode(pos, diam, mid + 1, lastIdx)
         IN  [leaf |-> FALSE, left |-> l, right |-> r,
              bound |-> UnionBound(l.bound, r.bound)]

EmptyTree == [leaf |-> TRUE, index |-> 0, bound |-> [lo |-> 0, hi |-> 0]]

BuildTree(pos, diam) ==
    IF pos = <<>> THEN EmptyTree ELSE BuildNode(pos, diam, 1, Len(pos))

\* jit::union_params_t(): the parameter block of one type, empty. hinted says
\* that no field of the block was written after its last residency hint.
union_params_t ==
    [mtype |-> <<>>, mpos |-> <<>>, morientation |-> <<>>, mdiameter |-> <<>>,
     mcharge |-> <<>>, tree |-> EmptyTree, hinted |-> TRUE]

\* union_params_t::set_memory_hint(): the residency hint of the block's
\* arrays is brought up to date.
set_memory_hint(block) == [block EXCEPT !.hinted = TRUE]

\* Faulty variant of the key: seven decimal digits below the launch bound.
PatchKey_wide(bound, group_size, eval_threads) ==
    AddU32(AddU32(MulU32(bound, 10000000), MulU32(group_size, 100)),
           eval_threads)

\* cur_launch_bounds * 1000000 + group_size * 100 + eval_threads.
PatchKey(bound, group_size, eval_threads) ==
    AddU32(AddU32(MulU32(bound, 1000000), MulU32(group_size, 100)),
           eval_threads)

\* The candidate keys of the narrow phase: for each launch bound, the
\* power-of-two group sizes up to it and eval threads up to the warp size
\* whose product divides it.
RECURSIVE EvalThreadsLoop(_, _, _, _)
EvalThreadsLoop(bound, group_size, eval_threads, max_threads) ==
    IF eval_threads > max_threads THEN <<>>
    ELSE (IF bound % (group_size * eval_threads) = 0
          THEN <<PatchKey(bound, group_size, eval_threads)>>
          ELSE <<>>)
         \o EvalThreadsLoop(bound, group_size, eval_threads * 2, max_threads)

RECURSIVE GroupSizeLoop(_, _, _)
GroupSizeLoop(bound, group_size, max_threads) ==
    IF group_size > bound THEN <<>>
    ELSE EvalThreadsLoop(bound, group_size, 1, max_threads)
         \o GroupSizeLoop(bound, group_size * 2, max_threads)

RECURSIVE valid_params_patch(_, _)
valid_params_patch(launch_bounds, warpSize) ==
    IF launch_bounds = <<>> THEN <<>>
    ELSE GroupSizeLoop(Head(launch_bounds), 1, warpSize)
         \o valid_params_patch(Tail(launch_bounds), warpSize)

NoTuner == [state |-> "none"]

\* No instance: before construction, or after a constructor that threw.
NoObject(status, error) ==
    [status |-> status, error |-> error, module |-> FALSE,
     tuner |-> NoTuner, paramsAddr |-> 0, boundPtr |-> 0,
     m_managed_memory |-> FALSE,
     m_type |-> [t \in TypeIds |-> <<>>],
     m_position |-> [t \in TypeIds |-> <<>>],
     m_orientation |-> [t \in TypeIds |-> <<>>],
     m_diameter |-> [t \in TypeIds |-> <<>>],
     m_charge |-> [t \in TypeIds |-> <<>>],
     m_tree |-> [t \in TypeIds |-> EmptyTree],
     m_d_union_params |-> [t \in TypeIds |-> union_params_t]]

\* The instance once the constructor body has run: the module is loaded, the
\* parameter array lives at addr and is bound into the module, the tuner
\* searches tuner_params.
ConstructedUnion(hasModule, tuner_params, addr) ==
    [NoObject("constructed", "") EXCEPT
        !.module = hasModule,
        !.paramsAddr = addr,
        !.boundPtr = addr,
        !.tuner = Autotuner(tuner_params, 5, 100000),
        !.m_managed_memory = TRUE]

\* Faulty variant of the constructor: a failed compile is swallowed and the body runs
\* without a module.
PatchEnergyJITUnionGPU_fallback(compileOk, launch_bounds, warpSize, addr) ==
    LET params == valid_params_patch(launch_bounds, warpSize)
    IN  IF AutotunerError(params) # ""
        THEN NoObject("failed", AutotunerError(params))
        ELSE ConstructedUnion(compileOk, params, addr)

\* The constructor. m_gpu_factory compiles the source while the members are
\* initialised: a failed compile throws before m_d_union_params exists and
\* before the body runs. The body binds the parameter array, enumerates the
\* tuner's candidates and constructs the tuner, which fails on an empty list.
PatchEnergyJITUnionGPU(compileOk, launch_bounds, warpSize, addr) ==
    LET params == valid_params_patch(launch_bounds, warpSize)
    IN  IF ~compileOk THEN NoObject("failed", "CompileError")
        ELSE IF AutotunerError(params) # ""
        THEN NoObject("failed", AutotunerError(params))
        ELSE ConstructedUnion(TRUE, params, addr)

\* std::vector::resize(N): cut to N elements or filled with zero values.
RECURSIVE Zeros(_)
Zeros(n) == IF n <= 0 THEN <<>> ELSE <<0>> \o Zeros(n - 1)

Resize(v, N) ==
    IF Len(v) >= N THEN SubSeq(v, 1, N) ELSE v \o Zeros(N - Len(v))

\* Index of the first element that cannot be converted, 0 when all can.
RECURSIVE FirstBadFrom(_, _)
FirstBadFrom(list, i) ==
    IF i > Len(list) THEN 0
    ELSE IF list[i] = Bad THEN i ELSE FirstBadFrom(list, i + 1)

FirstBad(list) == FirstBadFrom(list, 1)

\* The host vector after the setter's loop: resized to the list's length and
\* overwritten up to the element before the first one that fails to convert.
HostAfter(v, list) ==
    LET k == FirstBad(list)
        upto == IF k = 0 THEN Len(list) ELSE k - 1
    IN  [i \in 1..Len(list) |->
            IF i <= upto THEN list[i] ELSE Resize(v, Len(list))[i]]

\* What one configuration call did: the object afterwards, whether it threw,
\* how many writes it made to parameter blocks, and how many asynchronous
\* launches it issued itself.
Outcome(obj, threw, writes) ==
    [obj |-> obj, threw |-> threw, writes |-> writes, issued |-> 0]

\* buildOBBTree(type_id): the base class rebuilds the host tree from the
\* type's positions and diameters, and the tree is copied into the block.
buildOBBTree(obj, type_id) ==
    LET tree == BuildTree(obj.m_position[type_id], obj.m_diameter[type_id])
    IN  [obj EXCEPT !.m_tree[type_id] = tree,
                    !.m_d_union_params[type_id] =
                        [@ EXCEPT !.tree = tree, !.hinted = FALSE]]

setTypeids(obj, type_id, typeids) ==
    IF type_id \notin TypeIds THEN Outcome(obj, TRUE, 0)
    ELSE LET o1 == [obj EXCEPT !.m_type[type_id] = HostAfter(@, typeids)]
         IN  IF FirstBad(typeids) # 0 THEN Outcome(o1, TRUE, 0)
             ELSE Outcome([o1 EXCEPT !.m_d_union_params[type_id] =
                              set_memory_hint([@ EXCEPT !.mtype = typeids,
                                                        !.hinted = FALSE])],
                          FALSE, 1)

setPositions(obj, type_id, position) ==
    IF type_id \notin TypeIds THEN Outcome(obj, TRUE, 0)
    ELSE LET o1 == [obj EXCEPT !.m_position[type_id] = HostAfter(@, position)]
             o2 == [o1 EXCEPT !.m_d_union_params[type_id] =
                       set_memory_hint([@ EXCEPT !.mpos = position,
                                                 !.hinted = FALSE])]
         IN  IF FirstBad(position) # 0 THEN Outcome(o1, TRUE, 0)
             ELSE Outcome(buildOBBTree(o2, type_id), FALSE, 2)

setOrientations(obj, type_id, orientation) ==
    IF type_id \notin TypeIds THEN Outcome(obj, TRUE, 0)
    ELSE LET o1 == [obj EXCEPT !.m_orientation[type_id] = HostAfter(@, orientation)]
         IN  IF FirstBad(orientation) # 0 THEN Outcome(o1, TRUE, 0)
             ELSE Outcome([o1 EXCEPT !.m_d_union_params[type_id] =
                              set_memory_hint([@ EXCEPT !.morientation = orientation,
                                                        !.hinted = FALSE])],
                          FALSE, 1)

\* Faulty variant of setDiameters: the parameter array grows by one block, which moves
\* it, and the module keeps the old address.
setDiameters_realloc(obj, type_id, diameter) ==
    IF type_id \notin TypeIds THEN Outcome(obj, TRUE, 0)
    ELSE Outcome([obj EXCEPT !.m_diameter[type_id] = diameter,
                             !.m_d_union_params[type_id].mdiameter = diameter,
                             !.paramsAddr = CHOOSE a \in Addresses : a # @],
                 FALSE, 1)

\* Faulty variant of setDiameters: the data is pushed by an asynchronous copy that is
\* still outstanding when the block is written.
setDiameters_async(obj, type_id, diameter) ==
    IF type_id \notin TypeIds THEN Outcome(obj, TRUE, 0)
    ELSE [obj |-> [obj EXCEPT !.m_diameter[type_id] = diameter,
                              !.m_d_union_params[type_id].mdiameter = diameter],
          threw |-> FALSE, writes |-> 1, issued |-> 1]

setDiameters(obj, type_id, diameter) ==
    IF type_id \notin TypeIds THEN Outcome(obj, TRUE, 0)
    ELSE LET o1 == [obj EXCEPT !.m_diameter[type_id] = HostAfter(@, diameter)]
         IN  IF FirstBad(diameter) # 0 THEN Outcome(o1, TRUE, 0)
             ELSE Outcome([o1 EXCEPT !.m_d_union_params[type_id] =
                              set_memory_hint([@ EXCEPT !.mdiameter = diameter,
                                                        !.hinted = FALSE])],
                          FALSE, 1)

\* Faulty variant of setCharges: the host vector is replaced and the block
\* keeps the charges it had.
setCharges_hostOnly(obj, type_id, charge) ==
    IF type_id \notin TypeIds THEN Outcome(obj, TRUE, 0)
    ELSE LET o1 == [obj EXCEPT !.m_charge[type_id] = HostAfter(@, charge)]
         IN  IF FirstBad(charge) # 0 THEN Outcome(o1, TRUE, 0)
             ELSE Outcome(o1, FALSE, 1)

setCharges(obj, type_id, charge) ==
    IF type_id \notin TypeIds THEN Outcome(obj, TRUE, 0)
    ELSE LET o1 == [obj EXCEPT !.m_charge[type_id] = HostAfter(@, charge)]
         IN  IF FirstBad(charge) # 0 THEN Outcome(o1, TRUE, 0)
             ELSE Outcome([o1 EXCEPT !.m_d_union_params[type_id] =
                              set_memory_hint([@ EXCEPT !.mcharge = charge,
                                                        !.hinted = FALSE])],
                          FALSE, 1)

\* setAutotunerParams(enable, period): setPeriod, then setEnabled.
setAutotunerParams(obj, enable, period) ==
    [obj EXCEPT !.tuner = setEnabled(setPeriod(@, period), enable)]

\* --------------------------------------------------------- SystemDefinition
MaxParticles == 2    \* particles of a snapshot: 0..MaxParticles
MaxBonds == 1        \* bonds of a snapshot: 0..MaxBonds

\* Values the dimensions field of a snapshot can hold, and the snapshots.
DimensionValues == {0, 1, 2, 3, 4}
Snapshots ==
    [dimensions : DimensionValues, particles : 0..MaxParticles,
     bonds : 0..MaxBonds]

\* What dereferencing the null m_particle_data does: the process dies, or
\* the error is thrown all the same.
NullDereference == {"crash", "Error setting dimensions"}

\* A SystemDefinition: whether it exists, its dimensionality, whether
\* m_particle_data is set, and the sizes of its particle and bond data.
SystemOf(status, n_dimensions, has_pdata, particles, bonds) ==
    [status |-> status, m_n_dimensions |-> n_dimensions,
     m_particle_data |-> has_pdata, particles |-> particles, bonds |-> bonds]

\* setNDimensions(n_dimensions): a value other than 2 or 3 is reported
\* through m_particle_data's execution configuration and rejected with
\* "Error setting dimensions"; ub is what happens when m_particle_data is
\* still null at that point.
setNDimensions(sd, n_dimensions, ub) ==
    IF ~(n_dimensions = 2 \/ n_dimensions = 3)
    THEN [sd |-> sd,
          error |-> IF sd.m_particle_data THEN "Error setting dimensions"
                    ELSE ub]
    ELSE [sd |-> [sd EXCEPT !.m_n_dimensions = n_dimensions], error |-> ""]

\* SystemDefinition(snapshot, exec_conf, decomposition): setNDimensions is
\* called first, before m_particle_data is created; then the data classes
\* are built from the sub-snapshots.
SystemDefinition(snapshot, ub) ==
    LET blank == SystemOf("constructing", 0, FALSE, 0, 0)
        r == setNDimensions(blank, snapshot.dimensions, ub)
    IN  IF r.error = "crash" THEN SystemOf("crashed", 0, FALSE, 0, 0)
        ELSE IF r.error # "" THEN SystemOf("failed", 0, FALSE, 0, 0)
        ELSE SystemOf("constructed", r.sd.m_n_dimensions, TRUE,
                      snapshot.particles, snapshot.bonds)

\* initializeFromSnapshot(snapshot): the dimensionality is assigned from the
\* snapshot, then the data classes are re-initialized.
initializeFromSnapshot(sd, snapshot) ==
    [sd EXCEPT !.m_n_dimensions = snapshot.dimensions,
               !.particles = snapshot.particles,
               !.bonds = snapshot.bonds]

getNDimensions(sd) == sd.m_n_dimensions

\* ----------------------------------------------------------- MOL2DumpWriter
\* Lengths of the names the particle types can have, and the longest name
\* the writer accepts.
TypeNameLengths == {1, 15, 16}
MaxTypeNameLength == 15
\* What every failure of the writer throws.
Mol2Error == "Error writting mol2 dump file"

\* ParticleData::acquireReadOnly() and release(): the data is marked as
\* acquired until it is released.
acquireReadOnly(m_acquired) == TRUE
release(m_acquired) == FALSE

\* The loop over the particles. names[j] is the length of the type name of
\* the j-th particle in tag order; the stream is bad from its badFrom-th
\* write on, the header being write 0 and the line of particle j write j.
\* The result is the exit taken: the name check, the check of the stream
\* after the particle's line, or the end of the loop.
RECURSIVE AtomLoop(_, _, _, _)
AtomLoop(j, nparticles, names, badFrom) ==
    IF j > nparticles THEN "done"
    ELSE IF names[j] > MaxTypeNameLength THEN "type_name"
    ELSE IF badFrom <= j THEN "atom_write"
    ELSE AtomLoop(j + 1, nparticles, names, badFrom)

\* What one call of the writer did: the exit it took, what it threw, the
\* particle data's mark afterwards, the acquisitions and releases it made
\* and the bond count of the header.
Mol2Outcome(exit, error, m_acquired, acquires, releases, num_bonds) ==
    [exit |-> exit, error |-> error, m_acquired |-> m_acquired,
     acquires |-> acquires, releases |-> releases, num_bonds |-> num_bonds]

\* writeFile(fname): the file is opened, the particle data acquired, the
\* header, one line per particle and the bonds (a dummy bond when the system
\* has none) are written, the file is closed and the data released. The
\* bond section is write nparticles + 1.
writeFile(sd, m_acquired, openOk, names, badFrom) ==
    LET arrays == acquireReadOnly(m_acquired)
        num_bonds == IF sd.bonds > 0 THEN sd.bonds ELSE 1
        loop == AtomLoop(1, sd.particles, names, badFrom)
    IN  IF ~openOk
        THEN Mol2Outcome("open", Mol2Error, m_acquired, 0, 0, 0)
        ELSE IF loop # "done"
        THEN Mol2Outcome(loop, Mol2Error, arrays, 1, 0, num_bonds)
        ELSE IF badFrom <= sd.particles + 1
        THEN Mol2Outcome("final_write", Mol2Error, arrays, 1, 0, num_bonds)
        ELSE Mol2Outcome("return", "", release(arrays), 1, 1, num_bonds)

\* analyze(timestep): the file name is made from the base name and the
\* timestep, and the file is written.
analyze(sd, m_acquired, openOk, names, badFrom) ==
    writeFile(sd, m_acquired, openOk, names, badFrom)

VARIABLES
    decomposed,   \* the run is domain decomposed (one process per shard)
    nproc,        \* number of processes taking steps
    dpd,          \* rank -> PotentialPairDPDThermoGPU object
    cfg,          \* what the potential was constructed with
    pairs,        \* rank -> begin()/end() pairs completed since construction
    probed,       \* rank -> getParam() of each pair of the current scan pass
    timed,        \* rank -> duration recorded by each pair of that pass
    sinceLock,    \* rank -> pairs completed since the last lock
    storageMode,  \* m_nlist->getStorageMode(): "full" or "half"
    errorChecking,\* m_exec_conf->isCUDAErrorCheckingEnabled()
    last,         \* what the last operation on the potential did
    un,           \* the PatchEnergyJITUnionGPU instance
    inflight,     \* launches issued on the stream and not yet completed
    raced,        \* a parameter block was written while a launch was in flight
    kernelPtr,    \* the parameter pointer the last launch was issued with
    compiled,     \* outcome of compiling the user source: none, ok, failed
    reported,     \* launch bounds and warp size the constructor was given
    threw,        \* the last constructor or configuration call threw
    sysdef,       \* the SystemDefinition
    sdLast,       \* what the last operation on the SystemDefinition did
    pdAcquired,   \* the particle data is acquired and not released
    molLast       \* what the last call of the MOL2DumpWriter did

tunerVars == <<pairs, probed, timed, sinceLock>>
shimVars == <<storageMode, errorChecking, last>>
ctorVars == <<compiled, reported>>
unionVars == <<un, inflight, raced, kernelPtr, ctorVars, threw>>
molVars == <<pdAcquired, molLast>>
sysVars == <<sysdef, sdLast, molVars>>
vars == <<decomposed, nproc, dpd, cfg, tunerVars, shimVars, unionVars, sysVars>>

Procs == 1..nproc

tunerOf(r) == dpd[r].m_tuner

\* ----------------------------------------------------- driving the tuner
\* History kept beside one end() that returned: t is the tuner before the
\* pair's end(), t2 the tuner after it, p the getParam() of the pair.
PairsAfter(r) == Min2(pairs[r] + 1, PairCap)

ProbedAfter(r, t, t2, p) ==
    IF t.state = "Scanning" THEN Append(probed[r], p)
    ELSE IF t2.state = "Scanning" THEN <<>>
    ELSE probed[r]

TimedAfter(r, t, t2, d) ==
    IF t.state = "Scanning" THEN Append(timed[r], d)
    ELSE IF t2.state = "Scanning" THEN <<>>
    ELSE timed[r]

SinceLockAfter(r, t, t2) ==
    IF t.state = "Scanning" THEN 0
    ELSE IF t2.state = "Scanning" THEN 0
    ELSE Min2(sinceLock[r] + 1, StepCap)

\* A client calls begin(); begin() and end() are paired by the client.
Begin(r) ==
    /\ r \in Procs
    /\ ~tunerOf(r).began /\ ~tunerOf(r).waiting
    /\ dpd' = [dpd EXCEPT ![r].m_tuner = begin(@)]
    /\ UNCHANGED <<decomposed, nproc, cfg, pairs, probed, timed, sinceLock, shimVars, unionVars, sysVars>>

\* The client's end() records duration d. With sync set the last end() of a
\* scan pass does not return until the collective has completed.
End(r, d) ==
    /\ r \in Procs
    /\ tunerOf(r).began
    /\ LET t == tunerOf(r)
           t2 == end(t, d)
       IN  /\ dpd' = [dpd EXCEPT ![r].m_tuner = t2]
           /\ IF t2.waiting
              THEN /\ probed' = [probed EXCEPT ![r] = Append(@, getParam(t))]
                   /\ timed' = [timed EXCEPT ![r] = Append(@, d)]
                   /\ UNCHANGED <<pairs, sinceLock>>
              ELSE /\ pairs' = [pairs EXCEPT ![r] = PairsAfter(r)]
                   /\ probed' = [probed EXCEPT
                                   ![r] = ProbedAfter(r, t, t2, getParam(t))]
                   /\ timed' = [timed EXCEPT ![r] = TimedAfter(r, t, t2, d)]
                   /\ sinceLock' = [sinceLock EXCEPT
                                      ![r] = SinceLockAfter(r, t, t2)]
    /\ UNCHANGED <<decomposed, nproc, cfg, shimVars, unionVars, sysVars>>

\* Every process waits in end(): the collective completes and each of them
\* locks onto the reduced candidate, and each end() returns.
Collective ==
    /\ \A r \in Procs : tunerOf(r).waiting
    /\ LET p == collectiveParam([r \in Procs |-> tunerOf(r)], Procs)
       IN  dpd' = [r \in Ranks |->
                     IF r \in Procs
                     THEN [dpd[r] EXCEPT !.m_tuner = lockOnto(@, p)]
                     ELSE dpd[r]]
    /\ pairs' = [r \in Ranks |-> IF r \in Procs THEN PairsAfter(r) ELSE pairs[r]]
    /\ sinceLock' = [r \in Ranks |-> 0]
    /\ UNCHANGED <<decomposed, nproc, cfg, probed, timed, shimVars, unionVars, sysVars>>

\* No JIT union potential has been constructed.
NoUnion ==
    /\ un = NoObject("none", "")
    /\ inflight = 0
    /\ raced = FALSE
    /\ kernelPtr = 0
    /\ compiled = "none"
    /\ reported = [launch_bounds |-> <<>>, warpSize |-> 0]
    /\ threw = FALSE

\* No SystemDefinition has been constructed.
NoSystem == SystemOf("none", 0, FALSE, 0, 0)

NoSysCall == [op |-> "none", dimensions |-> 0, error |-> ""]

NoMol2Call == [op |-> "none", call |-> Mol2Outcome("none", "", FALSE, 0, 0, 0)]

NoSysdef ==
    /\ sysdef = NoSystem
    /\ sdLast = NoSysCall
    /\ pdAcquired = FALSE
    /\ molLast = NoMol2Call

\* Every rank has constructed its potential from cfg; nothing has run yet.
Constructed ==
    /\ dpd = [r \in Ranks |->
                PotentialPairDPDThermoGPU(cfg.candidates,
                                          cfg.samples_per_candidate,
                                          cfg.rescan_period, decomposed)]
    /\ pairs = [r \in Ranks |-> 0]
    /\ probed = [r \in Ranks |-> <<>>]
    /\ timed = [r \in Ranks |-> <<>>]
    /\ sinceLock = [r \in Ranks |-> 0]
    /\ storageMode = "full"
    /\ errorChecking = FALSE
    /\ last = NoCall
    /\ NoUnion
    /\ NoSysdef

\* One process, not decomposed: the tuner of one potential.
InitTuner ==
    /\ decomposed = FALSE
    /\ nproc = 1
    /\ \E c \in CandLists, n \in 1..MaxSamples, p \in 1..MaxPeriod :
         cfg = [candidates |-> c, samples_per_candidate |-> n,
                rescan_period |-> p]
    /\ Constructed

NextTuner ==
    \/ \E r \in Ranks : Begin(r)
    \/ \E r \in Ranks, d \in Durations : End(r, d)

SpecTuner == InitTuner /\ [][NextTuner]_vars

\* NRanks processes with the same potential, decomposed or not.
InitSync ==
    /\ decomposed \in BOOLEAN
    /\ nproc = NRanks
    /\ \E c \in SyncCandLists, p \in 1..MaxPeriod :
         cfg = [candidates |-> c, samples_per_candidate |-> 1,
                rescan_period |-> p]
    /\ Constructed

NextSync ==
    \/ \E r \in Ranks : Begin(r)
    \/ \E r \in Ranks, d \in SyncDurations : End(r, d)
    \/ Collective

SpecSync == InitSync /\ [][NextSync]_vars

\* Kernel names the pair potentials give their tuners: "pair_" followed by
\* evaluator::getName().
KernelNames == {"pair_dpd", "pair_dpdlj"}

\* NRanks pair potentials constructed in one process: dpd[i] is the i-th
\* instance and cfg.names[i] the kernel name its constructor passes to
\* new Autotuner. Each instance holds its tuner in its own m_tuner.
InitNames ==
    /\ decomposed = FALSE
    /\ nproc = NRanks
    /\ \E c \in SyncCandLists, names \in [Ranks -> KernelNames] :
         cfg = [candidates |-> c, samples_per_candidate |-> 1,
                rescan_period |-> 1, names |-> names]
    /\ Constructed

NextNames ==
    \/ \E r \in Ranks : Begin(r)
    \/ \E r \in Ranks, d \in SyncDurations : End(r, d)

SpecNames == InitNames /\ [][NextNames]_vars

\* The duration recorded where the scans are long.
PatchDurations == {3}

\* ----------------------------------------------------- the dispatch shim
\* Encoded launch parameters (block_size * 10000 + threads_per_particle) the
\* shim's tuner searches, and the values setTuningParam is given.
ShimCandLists == {<<320001, 320002>>, <<320001, 320002, 640001>>}
ShimDurations == {3, 5}
TuningParams == {0, 640004}

\* One integration step of process 1.
ComputeForces(deviceError, d) ==
    /\ LET res == computeForces(dpd[1], storageMode, errorChecking,
                                deviceError, d)
       IN  /\ dpd' = [dpd EXCEPT ![1] = res.obj]
           /\ last' = res.call
    /\ UNCHANGED <<decomposed, nproc, cfg, tunerVars, storageMode,
                   errorChecking, unionVars, sysVars>>

SetTuningParam(param) ==
    /\ dpd' = [dpd EXCEPT ![1] = setTuningParam(@, param)]
    /\ last' = [NoCall EXCEPT !.op = "setTuningParam"]
    /\ UNCHANGED <<decomposed, nproc, cfg, tunerVars, storageMode,
                   errorChecking, unionVars, sysVars>>

\* The neighbor list's storage mode and the error-checking flag belong to
\* collaborators of the potential and change between steps.
SetStorageMode(mode) ==
    /\ storageMode' = mode
    /\ UNCHANGED <<decomposed, nproc, cfg, dpd, tunerVars, errorChecking,
                   last, unionVars, sysVars>>

SetErrorChecking(flag) ==
    /\ errorChecking' = flag
    /\ UNCHANGED <<decomposed, nproc, cfg, dpd, tunerVars, storageMode,
                   last, unionVars, sysVars>>

InitShim ==
    /\ decomposed = FALSE
    /\ nproc = 1
    /\ \E c \in ShimCandLists, n \in 1..MaxSamples, p \in 1..MaxPeriod :
         cfg = [candidates |-> c, samples_per_candidate |-> n,
                rescan_period |-> p]
    /\ Constructed

NextShim ==
    \/ \E deviceError \in BOOLEAN, d \in ShimDurations :
         ComputeForces(deviceError, d)
    \/ \E param \in TuningParams : SetTuningParam(param)
    \/ \E mode \in {"full", "half"} : SetStorageMode(mode)
    \/ \E flag \in BOOLEAN : SetErrorChecking(flag)

SpecShim == InitShim /\ [][NextShim]_vars

\* ------------------------------------------- the pair potential's candidates
\* Warp sizes a device reports to the constructor.
DPDWarpSizes == {16, 32, 48, 64}

\* The potential as its constructor builds it for the device, stepped by the
\* integrator; the tuner takes one sample per candidate here.
InitKeys ==
    /\ decomposed = FALSE
    /\ nproc = 1
    /\ \E w \in DPDWarpSizes :
         cfg = [candidates |-> valid_params_pair(w), samples_per_candidate |-> 1,
                rescan_period |-> 1, warp_size |-> w]
    /\ Constructed

NextKeys == \E d \in PatchDurations : ComputeForces(FALSE, d)

SpecKeys == InitKeys /\ [][NextKeys]_vars

\* ------------------------------------------------- the JIT union potential
pairVars == <<decomposed, nproc, dpd, cfg, tunerVars, shimVars>>

Construct(compileOk, launch_bounds, warpSize, addr) ==
    /\ un.status = "none"
    /\ un' = PatchEnergyJITUnionGPU(compileOk, launch_bounds, warpSize, addr)
    /\ compiled' = IF compileOk THEN "ok" ELSE "failed"
    /\ reported' = [launch_bounds |-> launch_bounds, warpSize |-> warpSize]
    /\ threw' = (un'.status = "failed")
    /\ UNCHANGED <<inflight, raced, kernelPtr, pairVars, sysVars>>

\* A configuration call with outcome res: a write to a block while a launch
\* is outstanding races it. Launches the call issues itself stay outstanding.
Configure(res) ==
    /\ un.status = "constructed"
    /\ un' = res.obj
    /\ raced' = (raced \/ (res.writes > 0 /\ inflight + res.issued > 0))
    /\ inflight' = Min2(inflight + res.issued, MaxInflight)
    /\ threw' = res.threw
    /\ UNCHANGED <<kernelPtr, ctorVars, pairVars, sysVars>>

SetTypeids(type_id, list) == Configure(setTypeids(un, type_id, list))
SetPositions(type_id, list) == Configure(setPositions(un, type_id, list))
SetOrientations(type_id, list) == Configure(setOrientations(un, type_id, list))
SetDiameters(type_id, list) == Configure(setDiameters(un, type_id, list))
SetCharges(type_id, list) == Configure(setCharges(un, type_id, list))
BuildOBBTree(type_id) == Configure(Outcome(buildOBBTree(un, type_id), FALSE, 1))

\* computePatchEnergyGPU(args, hStream): the kernel is launched on the stream
\* with the parameter pointer bound into the module. A launch the tuner times
\* has completed when the call returns; any other stays in flight.
LaunchKernel(timedLaunch) ==
    /\ un.status = "constructed"
    /\ un.module
    /\ inflight < MaxInflight
    /\ kernelPtr' = un.boundPtr
    /\ inflight' = IF timedLaunch THEN inflight ELSE inflight + 1
    /\ UNCHANGED <<un, raced, ctorVars, threw, pairVars, sysVars>>

\* The device completes the oldest launch of the stream.
KernelDone ==
    /\ inflight > 0
    /\ inflight' = inflight - 1
    /\ UNCHANGED <<un, raced, kernelPtr, ctorVars, threw, pairVars, sysVars>>

InitUnion ==
    /\ decomposed = FALSE
    /\ nproc = 1
    /\ cfg = [candidates |-> <<10>>, samples_per_candidate |-> 1,
              rescan_period |-> 1]
    /\ Constructed

NextUnion ==
    \/ \E compileOk \in BOOLEAN, launch_bounds \in LaunchBoundsLists,
          warpSize \in WarpSizes, addr \in Addresses :
         Construct(compileOk, launch_bounds, warpSize, addr)
    \/ \E t \in TypeIds, list \in TypeidLists : SetTypeids(t, list)
    \/ \E t \in TypeIds, list \in PositionLists : SetPositions(t, list)
    \/ \E t \in TypeIds, list \in OrientationLists : SetOrientations(t, list)
    \/ \E t \in TypeIds, list \in DiameterLists : SetDiameters(t, list)
    \/ \E t \in TypeIds, list \in ChargeLists : SetCharges(t, list)
    \/ \E t \in TypeIds : BuildOBBTree(t)
    \/ \E timedLaunch \in BOOLEAN : LaunchKernel(timedLaunch)
    \/ KernelDone

SpecUnion == InitUnion /\ [][NextUnion]_vars

\* ------------------------------------------------- the narrow-phase tuner
\* Launch bounds a compiled module reports and warp sizes of the devices.
PatchLaunchBoundsLists == {<<32>>, <<96>>, <<1024>>, <<256, 512>>}
PatchWarpSizes == {32, 64}
PatchPeriods == {1, 2, 100000}

patchFrame == <<decomposed, nproc, dpd, cfg, tunerVars, storageMode,
                errorChecking, raced, ctorVars, threw, sysVars>>

\* computePatchEnergyGPU as the integrator drives it: one launch bracketed
\* by begin() and end(), which wait for the stream; the launch parameter is
\* the tuner's getParam(). Steps of a Locked tuner are followed up to
\* StepCap of them.
ComputePatchEnergyGPU(d) ==
    /\ un.status = "constructed"
    /\ un.module
    /\ inflight = 0
    /\ un.tuner.calls < StepCap
    /\ un' = [un EXCEPT !.tuner = end(begin(@), d)]
    /\ kernelPtr' = un.boundPtr
    /\ last' = [NoCall EXCEPT !.op = "computePatchEnergyGPU",
                              !.begins = 1, !.getParams = 1, !.ends = 1,
                              !.launches = 1]
    /\ UNCHANGED <<inflight, patchFrame>>

SetAutotunerParams(enable, period) ==
    /\ un.status = "constructed"
    /\ un' = setAutotunerParams(un, enable, period)
    /\ last' = [NoCall EXCEPT !.op = "setAutotunerParams"]
    /\ UNCHANGED <<inflight, kernelPtr, patchFrame>>

NextPatch ==
    \/ \E launch_bounds \in PatchLaunchBoundsLists, warpSize \in PatchWarpSizes :
         Construct(TRUE, launch_bounds, warpSize, 1)
    \/ \E d \in PatchDurations : ComputePatchEnergyGPU(d)
    \/ \E enable \in BOOLEAN, period \in PatchPeriods :
         SetAutotunerParams(enable, period)

SpecPatch == InitUnion /\ [][NextPatch]_vars

\* ------------------------------------------------- setters given bad input
\* Lists with an element that cannot be converted, and a type name that no
\* particle type has.
FailingLists == {<<1>>, <<1, Bad>>}
FailingTypes == {0, UnknownType}

NextSetters ==
    \/ \E addr \in Addresses : Construct(TRUE, <<2>>, 2, addr)
    \/ \E t \in FailingTypes, list \in FailingLists : SetTypeids(t, list)
    \/ \E t \in FailingTypes, list \in FailingLists : SetPositions(t, list)
    \/ \E t \in FailingTypes, list \in FailingLists : SetOrientations(t, list)
    \/ \E t \in FailingTypes, list \in FailingLists : SetDiameters(t, list)
    \/ \E t \in FailingTypes, list \in FailingLists : SetCharges(t, list)

SpecSetters == InitUnion /\ [][NextSetters]_vars

\* ------------------------------------------------- the system definition
sysFrame == <<pairVars, unionVars, molVars>>

ConstructSystem(snapshot, ub) ==
    /\ sysdef.status = "none"
    /\ sysdef' = SystemDefinition(snapshot, ub)
    /\ sdLast' = [op |-> "SystemDefinition", dimensions |-> snapshot.dimensions,
                  error |-> IF sysdef'.status = "constructed" THEN ""
                            ELSE IF sysdef'.status = "crashed" THEN "crash"
                            ELSE "Error setting dimensions"]
    /\ UNCHANGED sysFrame

SetNDimensions(n_dimensions) ==
    /\ sysdef.status = "constructed"
    /\ LET r == setNDimensions(sysdef, n_dimensions, "crash")
       IN  /\ sysdef' = r.sd
           /\ sdLast' = [op |-> "setNDimensions", dimensions |-> n_dimensions,
                         error |-> r.error]
    /\ UNCHANGED sysFrame

InitializeFromSnapshot(snapshot) ==
    /\ sysdef.status = "constructed"
    /\ sysdef' = initializeFromSnapshot(sysdef, snapshot)
    /\ sdLast' = [op |-> "initializeFromSnapshot",
                  dimensions |-> snapshot.dimensions, error |-> ""]
    /\ UNCHANGED sysFrame

NextSysdef ==
    \/ \E snapshot \in Snapshots, ub \in NullDereference :
         ConstructSystem(snapshot, ub)
    \/ \E n_dimensions \in DimensionValues : SetNDimensions(n_dimensions)
    \/ \E snapshot \in Snapshots : InitializeFromSnapshot(snapshot)

SpecSysdef == InitUnion /\ [][NextSysdef]_vars

\* ------------------------------------------------------ the MOL2 dump writer
\* The stream goes bad at one of the writes of a call, or at none of them.
BadFrom == 0..(MaxParticles + 2)
TypeNames == [1..MaxParticles -> TypeNameLengths]

molFrame == <<pairVars, unionVars, sysdef, sdLast>>

WriteFile(openOk, names, badFrom) ==
    /\ sysdef.status = "constructed"
    /\ LET r == writeFile(sysdef, pdAcquired, openOk, names, badFrom)
       IN  /\ pdAcquired' = r.m_acquired
           /\ molLast' = [op |-> "writeFile", call |-> r]
    /\ UNCHANGED molFrame

Analyze(openOk, names, badFrom) ==
    /\ sysdef.status = "constructed"
    /\ LET r == analyze(sysdef, pdAcquired, openOk, names, badFrom)
       IN  /\ pdAcquired' = r.m_acquired
           /\ molLast' = [op |-> "analyze", call |-> r]
    /\ UNCHANGED molFrame

NextMol2 ==
    \/ \E snapshot \in Snapshots, ub \in NullDereference :
         ConstructSystem(snapshot, ub)
    \/ \E openOk \in BOOLEAN, names \in TypeNames, badFrom \in BadFrom :
         WriteFile(openOk, names, badFrom)
    \/ \E openOk \in BOOLEAN, names \in TypeNames, badFrom \in BadFrom :
         Analyze(openOk, names, badFrom)

SpecMol2 == InitUnion /\ [][NextMol2]_vars

\* ------------------------------------------------ building the bounding tree
\* Constituent sets of 1, 2, 8 and 37 particles: two layouts of positions
\* and two of diameters for each size.
TreeSizes == {1, 2, 8, 37}
TreePositionLists ==
    {[i \in 1..n |-> (7 * i) % 11] : n \in TreeSizes}
        \cup {[i \in 1..n |-> 2 * (n - i)] : n \in TreeSizes}
TreeDiameterLists ==
    {[i \in 1..n |-> i % 4] : n \in TreeSizes}
        \cup {[i \in 1..n |-> 1] : n \in TreeSizes}

\* One composite body (type 0) is given its geometry and its tree is rebuilt.
NextTree ==
    \/ \E addr \in Addresses : Construct(TRUE, <<2>>, 2, addr)
    \/ \E list \in TreePositionLists : SetPositions(0, list)
    \/ \E list \in TreeDiameterLists : SetDiameters(0, list)
    \/ BuildOBBTree(0)

SpecTree == InitUnion /\ [][NextTree]_vars

\* ------------------------------------------------------------------ claims
\* The scan order a pass must follow: the candidates in construction order,
\* each repeated samples_per_candidate times.
ScanOrder ==
    [i \in 1..(cfg.samples_per_candidate * Len(cfg.candidates)) |->
        cfg.candidates[((i - 1) \div cfg.samples_per_candidate) + 1]]

FirstPassLen == cfg.samples_per_candidate * Len(cfg.candidates)

\* Sum and number of the durations rank r recorded for candidate key k in the
\* current pass, from the history of the pairs.
RECURSIVE TimedSum(_, _, _)
TimedSum(r, k, i) ==
    IF i = 0 THEN 0
    ELSE TimedSum(r, k, i - 1) + (IF probed[r][i] = k THEN timed[r][i] ELSE 0)

TimedCount(r, k) == Cardinality({i \in 1..Len(probed[r]) : probed[r][i] = k})

Keys == {cfg.candidates[i] : i \in 1..Len(cfg.candidates)}

\* k has the minimum mean recorded duration of rank r's pass, and among the
\* candidates of that mean the smallest key.
IsMinMean(r, k) ==
    /\ k \in Keys
    /\ \A j \in Keys :
         LET sk == TimedSum(r, k, Len(probed[r])) * TimedCount(r, j)
             sj == TimedSum(r, j, Len(probed[r])) * TimedCount(r, k)
         IN  sk < sj \/ (sk = sj /\ k <= j)

\* C1: starting from a freshly constructed autotuner, the state is Scanning
\* after fewer than samples_per_candidate * |candidates| begin()/end() pairs
\* and Locked after exactly that many, and getParam() then returns the
\* candidate of minimum mean recorded duration, a tie going to the smaller key.
C1_LockedAfterFullScan ==
    \A r \in Procs :
        /\ pairs[r] < FirstPassLen => tunerOf(r).state = "Scanning"
        /\ pairs[r] = FirstPassLen =>
              /\ tunerOf(r).state = "Locked"
              /\ Len(probed[r]) = FirstPassLen
              /\ IsMinMean(r, getParam(tunerOf(r)))

\* A tie between the two candidates of <<20, 10>> went to key 10, the second
\* of the list.
C1_Witness ==
    /\ cfg.candidates = <<20, 10>>
    /\ cfg.samples_per_candidate = 2
    /\ pairs[1] = FirstPassLen
    /\ timed[1] = <<3, 5, 5, 3>>
    /\ getParam(tunerOf(1)) = 10

\* C2: within one scan pass the values getParam() returns over successive
\* begin()/end() pairs are the candidates in construction order, each
\* samples_per_candidate times in a row; a complete pass is the whole order.
\* Candidates 10,20,30 with 2 samples and durations 5,5,3,3,9,9 lock onto 20.
C2_ScanOrderFixed ==
    \A r \in Procs :
        /\ Len(probed[r]) <= FirstPassLen
        /\ \A i \in 1..Len(probed[r]) : probed[r][i] = ScanOrder[i]
        /\ tunerOf(r).state = "Locked" => Len(probed[r]) = FirstPassLen
        /\ (tunerOf(r).state = "Scanning" /\ ~tunerOf(r).waiting
               /\ Len(probed[r]) < FirstPassLen)
             => getParam(tunerOf(r)) = ScanOrder[Len(probed[r]) + 1]
        /\ (/\ cfg.candidates = <<10, 20, 30>>
            /\ cfg.samples_per_candidate = 2
            /\ timed[r] = <<5, 5, 3, 3, 9, 9>>)
             => /\ probed[r] = <<10, 10, 20, 20, 30, 30>>
                /\ getParam(tunerOf(r)) = 20

C2_Witness ==
    /\ cfg.candidates = <<10, 20, 30>>
    /\ cfg.samples_per_candidate = 2
    /\ timed[1] = <<5, 5, 3, 3, 9, 9>>
    /\ probed[1] = <<10, 10, 20, 20, 30, 30>>
    /\ tunerOf(1).state = "Locked"

\* C3: a Locked tuner stays Locked on the same candidate until rescan_period
\* steps have passed since the lock; the step that completes the period, and
\* no earlier one, returns it to Scanning, with the samples of every
\* candidate cleared.
C3_LockedSteps ==
    \A r \in Procs :
        tunerOf(r).state = "Locked" => sinceLock[r] < cfg.rescan_period

C3_RescanStep ==
    \A r \in Procs :
        tunerOf(r).state = "Locked" =>
            /\ tunerOf(r)'.state = "Locked" =>
                  getParam(tunerOf(r)') = getParam(tunerOf(r))
            /\ tunerOf(r)'.state = "Scanning" =>
                  /\ sinceLock[r] + 1 = cfg.rescan_period
                  /\ \A i \in 1..Len(cfg.candidates) :
                        tunerOf(r)'.samples[i] = <<>>
                  /\ getParam(tunerOf(r)') = cfg.candidates[1]

C3_RescanExactlyAtPeriod == []C3_LockedSteps /\ [][C3_RescanStep]_vars

\* The second pass has just started, two steps after a lock over three
\* candidates.
C3_Witness ==
    /\ Len(cfg.candidates) = 3
    /\ cfg.rescan_period = 2
    /\ pairs[1] = FirstPassLen + 2
    /\ tunerOf(1).state = "Scanning"
    /\ probed[1] = <<>>

\* C4: in a decomposed run, whenever two processes are Locked their
\* getParam() is the same candidate, also when their own samples select
\* different ones; a process enters the collective only in the end() that
\* completes the last sample of the last candidate, and all processes leave
\* it Locked in one step.
C4_Agree ==
    decomposed =>
        \A r1, r2 \in Procs :
            (tunerOf(r1).state = "Locked" /\ tunerOf(r2).state = "Locked")
              => getParam(tunerOf(r1)) = getParam(tunerOf(r2))

C4_CollectiveStep ==
    \A r \in Procs :
        /\ (tunerOf(r)'.waiting /\ ~tunerOf(r).waiting) =>
              /\ tunerOf(r).state = "Scanning"
              /\ tunerOf(r).element = Len(cfg.candidates)
              /\ Len(tunerOf(r)'.samples[Len(cfg.candidates)])
                    = cfg.samples_per_candidate
        /\ (decomposed /\ tunerOf(r).state = "Scanning"
               /\ tunerOf(r)'.state = "Locked") =>
              \A q \in Procs : /\ tunerOf(q).waiting
                               /\ tunerOf(q)'.state = "Locked"
        /\ tunerOf(r).state = "Locked" => ~tunerOf(r)'.waiting

C4_SyncAcrossRanks == []C4_Agree /\ [][C4_CollectiveStep]_vars

\* Both processes are Locked on one candidate although their own samples
\* select different ones.
C4_Witness ==
    /\ decomposed
    /\ tunerOf(1).state = "Locked" /\ tunerOf(2).state = "Locked"
    /\ computeOptimalParameter(tunerOf(1)) # computeOptimalParameter(tunerOf(2))
    /\ getParam(tunerOf(1)) = getParam(tunerOf(2))

\* C5: a computeForces call made while the neighbor list is in half storage
\* mode throws before any autotuner call: it made no begin(), getParam() or
\* end() call and launched no kernel, and it left the potential, tuner
\* included, as it was, whatever the tuner's state and the manual parameter.
C5_NoCalls ==
    (last.op = "computeForces" /\ last.mode = "half") =>
        /\ last.threw
        /\ last.begins = 0 /\ last.getParams = 0 /\ last.ends = 0
        /\ last.launches = 0

C5_Step ==
    (last'.op = "computeForces" /\ last'.mode = "half") => dpd' = dpd

C5_HalfFailsFast == []C5_NoCalls /\ [][C5_Step]_vars

\* The call failed on a Locked tuner with a manual parameter set.
C5_Witness ==
    /\ last.op = "computeForces" /\ last.mode = "half" /\ last.threw
    /\ tunerOf(1).state = "Locked"
    /\ dpd[1].m_param # 0

\* C6: the autotuner calls of computeForces are strictly paired: no call
\* returns or throws with a begin() that has no end(), no begin() or end() is
\* made out of turn, and a call that made a begin() made one end() and one
\* kernel launch.
C6_StrictlyPaired ==
    /\ ~tunerOf(1).began
    /\ ~tunerOf(1).misuse
    /\ last.op = "computeForces" =>
          /\ last.begins = last.ends
          /\ last.begins = 1 => last.launches = 1

\* C7: after any sequence of composite-geometry setter calls the tree stored
\* for a type, on the host and in its parameter block, is the tree built from
\* the type's current positions and diameters.
C7_TreeCurrent ==
    un.status = "constructed" =>
        \A t \in TypeIds :
            /\ un.m_tree[t] = BuildTree(un.m_position[t], un.m_diameter[t])
            /\ un.m_d_union_params[t].tree = un.m_tree[t]

\* C8: in every interleaving of setter calls and kernel launches no
\* parameter block is written while a launch is in flight.
C8_NoRacingWrite == ~raced

\* C8 as amended: a configuration call made while no launch is outstanding
\* writes no block that a launch in flight reads, and no configuration call
\* issues or awaits a launch.
C8_QuiescentStep ==
    /\ inflight = 0 => raced' = raced
    /\ un' # un => inflight' = inflight

C8_QuiescentWritesDoNotRace == [][C8_QuiescentStep]_vars

\* A launch was issued and has completed, and a later or earlier write of
\* diameters raced nothing.
C8_Witness ==
    /\ kernelPtr # 0 /\ inflight = 0 /\ ~raced
    /\ un.m_d_union_params[0].mdiameter # <<>>
    /\ un.m_d_union_params[1].mpos # <<>>

\* C9: the parameter pointer bound into the module is the address of the
\* per-type parameter array: from construction on, after every setter, and
\* in every launch; nothing is launched before the pointer is bound.
C9_PointerBound ==
    /\ un.status = "constructed" =>
          /\ un.paramsAddr # 0
          /\ un.boundPtr = un.paramsAddr
          /\ kernelPtr # 0 => kernelPtr = un.paramsAddr
    /\ un.status # "constructed" => kernelPtr = 0

\* A launch is in flight with the bound pointer after setters have replaced
\* data of both types.
C9_Witness ==
    /\ inflight = 1 /\ kernelPtr = un.paramsAddr /\ kernelPtr # 0
    /\ un.m_d_union_params[0].mpos # <<>>
    /\ un.m_d_union_params[1].mdiameter # <<>>
    /\ un.m_d_union_params[1].mcharge # <<>>

\* C10: when the runtime compilation fails, construction fails with the
\* compile error and leaves nothing usable: no module, no autotuner, no
\* parameter array and no bound pointer, and no kernel is ever launched.
C10_FailedCompileLeavesNothing ==
    compiled = "failed" =>
        /\ un.status = "failed" /\ un.error = "CompileError"
        /\ ~un.module
        /\ un.tuner = NoTuner
        /\ un.paramsAddr = 0 /\ un.boundPtr = 0
        /\ kernelPtr = 0 /\ inflight = 0

C10_Witness ==
    compiled = "failed" /\ un.status = "failed" /\ un.error = "CompileError"

\* C11: constructing an autotuner over an empty candidate list fails with
\* ConfigurationError: when the compiled module reports no launch bounds the
\* enumeration is empty and the construction of the potential fails, with no
\* instance and no tuner; a constructed potential's tuner has candidates.
C11_EmptyCandidatesFail ==
    /\ (compiled = "ok" /\ reported.launch_bounds = <<>>) =>
          /\ un.status = "failed" /\ un.error = "ConfigurationError"
          /\ un.tuner = NoTuner
          /\ kernelPtr = 0
    /\ (compiled = "ok"
          /\ valid_params_patch(reported.launch_bounds, reported.warpSize) = <<>>)
          => un.status = "failed"
    /\ un.status \in {"constructed", "failed"} =>
          (un.tuner = NoTuner \/ un.tuner.parameters # <<>>)

C11_Witness ==
    /\ compiled = "ok" /\ reported.launch_bounds = <<>>
    /\ un.status = "failed" /\ un.error = "ConfigurationError" /\ threw

\* The AutotuningState a tuner holds: its state, probe index, accumulated
\* samples and locked candidate.
AutotuningState(t) ==
    [state |-> t.state, element |-> t.element, samples |-> t.samples,
     locked |-> t.locked, calls |-> t.calls]

\* C12: a process holds exactly one AutotuningState per kernel name: two
\* potentials whose tuners carry the same kernel name do not have two
\* independent tuning states.
C12_OneStatePerName ==
    \A i, j \in Procs :
        cfg.names[i] = cfg.names[j] =>
            AutotuningState(tunerOf(i)) = AutotuningState(tunerOf(j))

\* C13: every write to a per-type parameter block is followed, before the
\* writing operation returns, by a residency-hint update of that block: no
\* operation returns with a field written after the block's last hint.
C13_HintAfterEveryWrite ==
    un.status = "constructed" =>
        \A t \in TypeIds : un.m_d_union_params[t].hinted

\* The nodes of a tree and the leaves below a node.
RECURSIVE Nodes(_)
Nodes(node) ==
    IF node.leaf THEN {node}
    ELSE {node} \cup Nodes(node.left) \cup Nodes(node.right)

Leaves(node) == {n \in Nodes(node) : n.leaf}

Contains(a, b) == a.lo <= b.lo /\ b.hi <= a.hi

NodesContainLeaves(tree) ==
    \A n \in Nodes(tree) : \A l \in Leaves(n) : Contains(n.bound, l.bound)

\* Every constituent has one leaf, whose bound contains the constituent's
\* extent: its position widened by its diameter on both sides (coordinates
\* doubled, so the half-diameter is a whole number).
LeavesExpanded(tree, pos, diam) ==
    IF pos = <<>> THEN tree = EmptyTree
    ELSE /\ {l.index : l \in Leaves(tree)} = 1..Len(pos)
         /\ Cardinality(Leaves(tree)) = Len(pos)
         /\ \A l \in Leaves(tree) :
               LET d == IF l.index <= Len(diam) THEN diam[l.index] ELSE 0
               IN  /\ l.bound.lo <= 2 * pos[l.index] - d
                   /\ 2 * pos[l.index] + d <= l.bound.hi

\* C14: for constituent sets of 1, 2, 8 and 37 particles every node of the
\* tree that a build returns has a bound containing the bounds of all the
\* leaves below it, and each leaf's bound contains its constituent widened by
\* the constituent's diameter.
C14_NodesContain ==
    \A t \in TypeIds :
        /\ NodesContainLeaves(un.m_tree[t])
        /\ NodesContainLeaves(un.m_d_union_params[t].tree)

C14_BuildStep ==
    \A t \in TypeIds :
        (un'.m_tree[t] # un.m_tree[t] \/ un'.m_position[t] # un.m_position[t])
          => /\ LeavesExpanded(un'.m_tree[t], un'.m_position[t],
                               un'.m_diameter[t])
             /\ un'.m_d_union_params[t].tree = un'.m_tree[t]

C14_TreeBoundsContain == []C14_NodesContain /\ [][C14_BuildStep]_vars

\* The tree of 37 constituents with diameters set has been built: 37 leaves
\* under 36 internal nodes.
C14_Witness ==
    /\ Len(un.m_position[0]) = 37 /\ Len(un.m_diameter[0]) = 37
    /\ Cardinality(Leaves(un.m_tree[0])) = 37
    /\ LeavesExpanded(un.m_tree[0], un.m_position[0], un.m_diameter[0])
    /\ un.m_tree[0].bound.hi - un.m_tree[0].bound.lo > 20

\* C15: setAutotunerParams(enable, period) changes only the rescan period and
\* the enabled flag of the narrow-phase tuner: its state, probe index,
\* accumulated samples and locked candidate are as before the call, and so is
\* everything else of the potential.
C15_Step ==
    last'.op = "setAutotunerParams" =>
        /\ AutotuningState(un'.tuner) = AutotuningState(un.tuner)
        /\ un'.tuner.parameters = un.tuner.parameters
        /\ un'.tuner.nsamples = un.tuner.nsamples
        /\ [un' EXCEPT !.tuner = un.tuner] = un

C15_OnlyPeriodAndEnabled == [][C15_Step]_vars

\* The tuner was disabled and given a period of 2 in mid-scan, with samples
\* of two candidates accumulated.
C15_Witness ==
    /\ last.op = "setAutotunerParams"
    /\ ~un.tuner.enabled /\ un.tuner.period = 2
    /\ un.tuner.state = "Scanning" /\ un.tuner.element = 2
    /\ Len(un.tuner.samples[1]) = 5 /\ Len(un.tuner.samples[2]) = 3

\* C16: a composite-geometry setter replaces its data atomically: a call that
\* fails (unknown type name, or an element that cannot be converted) has
\* modified neither the host-side copy of the field nor the parameter block
\* of any type.
C16_FailureStep ==
    (un.status = "constructed" /\ un'.status = "constructed" /\ threw')
        => un' = un

C16_SettersAtomic == [][C16_FailureStep]_vars

\* C17: the dimensionality of an existing system is always 2 or 3: after any
\* sequence of construction from a snapshot, setNDimensions and
\* initializeFromSnapshot calls getNDimensions() is 2 or 3, and a call on the
\* system that was given another value was rejected with "Error setting
\* dimensions".
C17_DimensionsValid ==
    sysdef.status = "constructed" =>
        /\ getNDimensions(sysdef) \in {2, 3}
        /\ (sdLast.dimensions \notin {2, 3})
              => sdLast.error = "Error setting dimensions"

\* C18: while a non-zero manual tuning parameter p is set, computeForces
\* makes no begin(), getParam() or end() call, leaves the tuner as it was and
\* launches with block size p / 10000 and p % 10000 threads per particle;
\* once the parameter is 0 again every computeForces makes its begin() and
\* getParam() and launches with the tuner's parameter.
C18_CallRecord ==
    (last.op = "computeForces" /\ last.mode = "full") =>
        IF dpd[1].m_param # 0
        THEN /\ last.begins = 0 /\ last.getParams = 0 /\ last.ends = 0
             /\ last.launches = 1
             /\ last.block_size = dpd[1].m_param \div 10000
             /\ last.threads_per_particle = dpd[1].m_param % 10000
        ELSE /\ last.begins = 1 /\ last.getParams = 1
             /\ last.launches = 1
             /\ last.ends = 1 \/ last.threw
             /\ (last.block_size * 10000 + last.threads_per_particle)
                   \in Keys

C18_Step ==
    (last'.op = "computeForces" /\ dpd[1].m_param # 0) =>
        /\ dpd' = dpd
        /\ last'.mode = "full" => last'.launches = 1

IsPow2(n) == \E e \in 0..16 : n = 2 ^ e

\* C19: for every warp size w the enumeration of the pair potential's
\* candidates ends with a non-empty list, and every key decodes, as
\* computeForces decodes it (k / 10000, k % 10000), to the pair that
\* generated it: a block size that is a multiple of w in [w, 1024] and a
\* power-of-two threads per particle not larger than w.
C19_KeysDecode ==
    LET w == cfg.warp_size
        keys == cfg.candidates
        tpp == getTppListPow2(w)
        n == Len(tpp)
    IN  /\ keys # <<>>
        /\ Len(keys) = (1024 \div w) * n
        /\ \A i \in 1..Len(keys) :
              LET block_size == keys[i] \div 10000
                  threads == keys[i] % 10000
              IN  /\ block_size = w * (((i - 1) \div n) + 1)
                  /\ threads = tpp[((i - 1) % n) + 1]
                  /\ block_size % w = 0 /\ w <= block_size
                  /\ block_size <= 1024
                  /\ IsPow2(threads) /\ threads <= w
        /\ last.op = "computeForces" =>
              /\ last.block_size % w = 0
              /\ w <= last.block_size /\ last.block_size <= 1024
              /\ IsPow2(last.threads_per_particle)
              /\ last.threads_per_particle <= w
              /\ DPDKey(last.block_size, last.threads_per_particle) \in Keys

\* The last candidate of a device with warp size 64 was launched: 1024
\* threads per block, 64 per particle.
C19_Witness ==
    /\ cfg.warp_size = 64
    /\ last.op = "computeForces"
    /\ last.block_size = 1024 /\ last.threads_per_particle = 64
    /\ tunerOf(1).state = "Locked"

\* The triples (launch bound, group size, eval threads) the enumeration is to
\* produce for the reported launch bounds and warp size.
PatchTriples ==
    LET bounds == {reported.launch_bounds[i] :
                      i \in 1..Len(reported.launch_bounds)}
        pow2 == {2 ^ e : e \in 0..10}
    IN  {tr \in bounds \X pow2 \X pow2 :
            /\ tr[2] <= tr[1]
            /\ tr[3] <= reported.warpSize
            /\ tr[1] % (tr[2] * tr[3]) = 0}

DecodePatchKey(k) == <<k \div 1000000, (k % 1000000) \div 100, k % 100>>

\* C20: for every reported launch bound L and warp size each candidate key
\* of the JIT union potential, L * 1000000 + group_size * 100 + eval_threads
\* in 32-bit unsigned arithmetic, is produced without wraparound and decodes
\* to its triple, distinct triples giving distinct keys; group_size and
\* eval_threads are powers of two, eval_threads <= warp size,
\* group_size <= L and group_size * eval_threads divides L.
C20_PatchKeysDecode ==
    un.status = "constructed" =>
        LET keys == un.tuner.parameters
        IN  /\ \A i \in 1..Len(keys) :
                  LET tr == DecodePatchKey(keys[i])
                  IN  /\ keys[i] > 0
                      /\ tr \in PatchTriples
                      /\ keys[i] = tr[1] * 1000000 + tr[2] * 100 + tr[3]
            /\ {DecodePatchKey(keys[i]) : i \in 1..Len(keys)} = PatchTriples
            /\ Len(keys) = Cardinality(PatchTriples)

\* The key of launch bound 1024 with a group of 1024 and one eval thread is
\* being probed on a device of warp size 64.
C20_Witness ==
    /\ un.status = "constructed"
    /\ reported.launch_bounds = <<1024>> /\ reported.warpSize = 64
    /\ getParam(un.tuner) = 1024102401
    /\ last.op = "computePatchEnergyGPU"

\* The host-side data of one type, and what its parameter block holds.
HostData(obj, t) ==
    [mtype |-> obj.m_type[t], mpos |-> obj.m_position[t],
     morientation |-> obj.m_orientation[t], mdiameter |-> obj.m_diameter[t],
     mcharge |-> obj.m_charge[t], tree |-> obj.m_tree[t]]

BlockData(obj, t) ==
    [f \in DOMAIN HostData(obj, t) |-> obj.m_d_union_params[t][f]]

\* C21: after any sequence of successful setter and buildOBBTree calls the
\* parameter block of every type mirrors the host-side data of the type: the
\* type-id, position, orientation, diameter and charge arrays have the length
\* and the elements of the host vectors and the tree is the host tree; and a
\* call made for one type leaves the host data and the block of every other
\* type as they were.
C21_Mirror ==
    un.status = "constructed" =>
        \A t \in TypeIds :
            /\ BlockData(un, t) = HostData(un, t)
            /\ \A f \in {"mtype", "mpos", "morientation", "mdiameter", "mcharge"} :
                  /\ Len(BlockData(un, t)[f]) = Len(HostData(un, t)[f])
                  /\ \A i \in 1..Len(HostData(un, t)[f]) :
                        BlockData(un, t)[f][i] = HostData(un, t)[f][i]

C21_OtherTypesStep ==
    (un.status = "constructed" /\ un'.status = "constructed" /\ ~threw')
        => \E t \in TypeIds :
              \A u \in TypeIds \ {t} :
                  /\ HostData(un', u) = HostData(un, u)
                  /\ un'.m_d_union_params[u] = un.m_d_union_params[u]

C21_BlocksMirrorHost == []C21_Mirror /\ [][C21_OtherTypesStep]_vars

\* Every field of type 0 was set and its tree rebuilt, while type 1 was given
\* other positions and diameters and none of the rest.
C21_Witness ==
    /\ un.status = "constructed" /\ ~threw
    /\ un.m_d_union_params[0].mtype = <<1>>
    /\ un.m_d_union_params[0].mpos = <<0>>
    /\ un.m_d_union_params[0].morientation = <<1>>
    /\ un.m_d_union_params[0].mdiameter = <<2>>
    /\ un.m_d_union_params[0].mcharge = <<1>>
    /\ un.m_d_union_params[0].tree = BuildTree(<<0>>, <<2>>)
    /\ un.m_position[1] = <<1>> /\ un.m_diameter[1] = <<1>>
    /\ un.m_d_union_params[1].tree = BuildTree(<<1>>, <<1>>)
    /\ un.m_charge[1] = <<>> /\ un.m_d_union_params[1].mcharge = <<>>

\* C22: in MOL2DumpWriter::writeFile every acquisition of the particle data
\* is matched by exactly one release on every exit path, the error exits
\* included (a type name longer than 15 characters, a failed write): after
\* any sequence of writeFile and analyze calls, failed or not, the last call
\* made as many releases as acquisitions and the particle data is not left
\* acquired.
C22_AcquireReleasePaired ==
    /\ molLast.call.acquires = molLast.call.releases
    /\ ~pdAcquired

====
